---- MODULE Spec2Model ----
(***************************************************************************)
(* Image captioning with a vision encoder-decoder: the preprocessing       *)
(* transform (preprocess_function), the postprocessing of label ids        *)
(* (compute_metrics, forward_pass_with_label) and the two drivers          *)
(* (train.py, predict.py).                                                 *)
(*                                                                         *)
(* Token ids are integers, captions and decoded strings are sequences of   *)
(* words, numpy arrays are sequences, an array's shape is the sequence of  *)
(* its dimensions.                                                         *)
(***************************************************************************)
EXTENDS Integers, Sequences, FiniteSets, TLC

\* ------------------------------------------------------------------ bounds
MaxBatch == 2
MaxCaptionLen == 2
MaxSeqLen == 4
MaxData == 3
\* the batch size of datasets' map(batched=True) when none is given (the
\* library's default of 1000, scaled down)
MapBatchSize == 2

\* ------------------------------------------------------- program constants
\* the ignore index written inline in both scripts
IgnoreIndex == -100
\* preprocessed_features: Array3D(shape=(3, 224, 224))
Channels == 3
ImageSize == 224

\* ------------------------------------------------------------- tokenizers
\* The tokenizer is loaded by name at run time (AutoTokenizer); the scripts
\* only read pad_token_id / eos_token_id and call it and batch_decode.  Three
\* representative tokenizers: a BERT-like one (pad token, [CLS] .. [SEP]
\* added, out-of-vocabulary words become [UNK]), a GPT-2-like one (no pad
\* token, no special tokens added, byte-level so every word has an id) and
\* the GPT-2-like one configured with pad_token = eos_token.
Words == {"a", "zz"}

TokenizerNames == {"bert", "gpt2", "gpt2_pad"}

Tokenizer(name) ==
    IF name = "bert" THEN
        [ pad_token_id |-> <<0>>, eos_token_id |-> <<>>,
          prefix |-> <<2>>, suffix |-> <<3>>,
          all_special_ids |-> {0, 1, 2, 3},
          vocab |-> [w \in Words |-> IF w = "a" THEN 5 ELSE 1],
          ids |-> {0, 1, 2, 3, 5},
          text |-> [i \in {0, 1, 2, 3, 5} |->
                       CASE i = 0 -> "[PAD]" [] i = 1 -> "[UNK]" [] i = 2 -> "[CLS]"
                         [] i = 3 -> "[SEP]" [] OTHER -> "a"] ]
    ELSE
        [ pad_token_id |-> IF name = "gpt2_pad" THEN <<4>> ELSE <<>>,
          eos_token_id |-> <<4>>,
          prefix |-> <<>>, suffix |-> <<>>,
          all_special_ids |-> {4},
          vocab |-> [w \in Words |-> IF w = "a" THEN 5 ELSE 6],
          ids |-> {4, 5, 6},
          text |-> [i \in {4, 5, 6} |->
                       CASE i = 4 -> "<|endoftext|>" [] i = 5 -> "a" [] OTHER -> "zz"] ]

\* Python's None for an optional token id: the empty tuple; <<i>> is the id i
IsNone(x) == x = <<>>

Min(a, b) == IF a < b THEN a ELSE b

NumSpecialTokens(tok) == Len(tok.prefix) + Len(tok.suffix)

\* tokenizer(...): words to ids, truncation=True to max_length (the special
\* tokens are kept), the special tokens added
Encode(tok, caption, max_length) ==
    LET content == [i \in 1..Len(caption) |-> tok.vocab[caption[i]]]
        room == max_length - NumSpecialTokens(tok)
    IN tok.prefix \o SubSeq(content, 1, Min(Len(content), room)) \o tok.suffix

\* padding="max_length": right-pad with the pad token id
PadToMaxLength(tok, ids, max_length) ==
    ids \o [i \in 1..(max_length - Len(ids)) |-> tok.pad_token_id[1]]

TokenizerCall(tok, captions, padding, max_length) ==
    [i \in 1..Len(captions) |->
        IF padding = "max_length"
        THEN PadToMaxLength(tok, Encode(tok, captions[i], max_length), max_length)
        ELSE Encode(tok, captions[i], max_length)]

\* tokenizer.batch_decode(ids, skip_special_tokens=True): one string (here a
\* sequence of words) per row; an id outside the vocabulary (such as -100)
\* has no token, which is shown as "<invalid>"
TokenText(tok, id) == IF id \in tok.ids THEN tok.text[id] ELSE "<invalid>"

DecodeRow(tok, row, skip_special_tokens) ==
    LET Keep(id) == ~(skip_special_tokens /\ id \in tok.all_special_ids)
        kept == SelectSeq(row, Keep)
    IN [i \in 1..Len(kept) |-> TokenText(tok, kept[i])]

batch_decode(tok, rows, skip_special_tokens) ==
    [i \in 1..Len(rows) |-> DecodeRow(tok, rows[i], skip_special_tokens)]

\* ------------------------------------------------------------------ numpy
\* return_tensors="np" on the tokenizer's id lists.  Rows of one length give
\* a 2-D integer array, whose rows are arrays.  Rows of different lengths
\* depend on the installed numpy / transformers: an object array of the
\* Python lists, an object array of 1-D arrays, or a ValueError.
RaggedConversions == {"object_lists", "object_arrays", "error"}

Uniform(rows) == \A i, j \in 1..Len(rows) : Len(rows[i]) = Len(rows[j])

AsTensor(rows, conv) ==
    [ kind |-> IF Uniform(rows) THEN "ndarray" ELSE conv, rows |-> rows ]

\* ndarray + list: elementwise addition with broadcasting (never a
\* concatenation); shapes that do not broadcast raise ValueError
BroadcastAdd(a, b) ==
    IF Len(a) = Len(b) THEN [ok |-> TRUE, value |-> [i \in 1..Len(a) |-> a[i] + b[i]]]
    ELSE IF Len(b) = 1 THEN [ok |-> TRUE, value |-> [i \in 1..Len(a) |-> a[i] + b[1]]]
    ELSE IF Len(a) = 1 THEN [ok |-> TRUE, value |-> [i \in 1..Len(b) |-> a[1] + b[i]]]
    ELSE [ok |-> FALSE, value |-> <<>>]

\* list + list: concatenation
ListAdd(a, b) == [ok |-> TRUE, value |-> a \o b]

\* row + ([-100] * n): the operator + on what the row is
RowPlusList(kind, row, list) ==
    IF kind = "object_lists" THEN ListAdd(row, list) ELSE BroadcastAdd(row, list)

\* faulty variant: the assignment lands on a copy: the array is left as it was
MaskedAssignOnCopy(rows, value, new) == rows

\* array[array == value] = new, in place
MaskedAssign(rows, value, new) ==
    [i \in 1..Len(rows) |->
        [t \in 1..Len(rows[i]) |-> IF rows[i][t] = value THEN new ELSE rows[i][t]]]

\* ndarray.squeeze(): every axis of length one is removed
squeeze(shape) == SelectSeq(shape, LAMBDA d : d # 1)

\* [-100] * n  (the empty list when n <= 0)
Repeat(x, n) == [i \in 1..n |-> x]

\* ----------------------------------------------------- preprocess_function
Raised == [status |-> "raised", pixel_values |-> <<>>, labels |-> <<>>, id |-> <<>>]

preprocess_function(examples, tok, max_sequence_length, conv, with_id) ==
    LET do_padding == ~IsNone(tok.pad_token_id)
        pixel_values == <<Len(examples), Channels, ImageSize, ImageSize>>
        encoded == AsTensor(
            TokenizerCall(tok, [i \in 1..Len(examples) |-> examples[i].caption],
                          IF do_padding THEN "max_length" ELSE "do_not_pad",
                          max_sequence_length),
            conv)
        image_ids == IF with_id THEN [i \in 1..Len(examples) |-> examples[i].image_id]
                     ELSE <<>>
        padded == [i \in 1..Len(encoded.rows) |->
                      RowPlusList(encoded.kind, encoded.rows[i],
                          Repeat(IgnoreIndex, max_sequence_length - Len(encoded.rows[i])))]
    IN IF encoded.kind = "error" THEN Raised
       ELSE IF do_padding THEN
           [ status |-> "returned", pixel_values |-> squeeze(pixel_values),
             labels |-> MaskedAssign(encoded.rows, tok.pad_token_id[1], IgnoreIndex),
             id |-> image_ids ]
       ELSE IF \E i \in 1..Len(padded) : ~padded[i].ok THEN Raised
       ELSE
           [ status |-> "returned", pixel_values |-> squeeze(pixel_values),
             labels |-> [i \in 1..Len(padded) |-> padded[i].value],
             id |-> image_ids ]

\* ------------------------------------------------------------------- state
VARIABLES
    script,      \* "train" (train.py) or "predict" (predict.py)
    tokenizer,   \* the name of the loaded tokenizer
    args,        \* the argument namespace
    pc,          \* where the run is
    examples,    \* the raw batch handed to preprocess_function
    pre_out,     \* what preprocess_function returned (or that it raised)
    post_out,    \* label ids handed to batch_decode, and the decoded strings
    global_seed, \* the seed seed_everything was called with (None before)
    random_ops,  \* the randomized operations run so far, with their seeds
    dataset,     \* the streaming source: the raw examples in stream order
    cursor,      \* how many raw examples the lazy map has consumed
    encoded_ds,  \* the encoded examples (eval_dataset / test_dataset)
    batch,       \* the batch handed to forward_pass_with_label
    fwd_out,     \* what forward_pass_with_label returned for it
    prediction,  \* the prediction records
    metrics      \* what compute_metrics returned (or that it raised)

vars == <<script, tokenizer, args, pc, examples, pre_out, post_out, global_seed,
          random_ops, dataset, cursor, encoded_ds, batch, fwd_out, prediction, metrics>>

run_vars == <<global_seed, random_ops, dataset, cursor, encoded_ds, batch,
              fwd_out, prediction, metrics>>

Captions == UNION {[1..n -> Words] : n \in 0..MaxCaptionLen}

Batches == UNION {[1..n -> Captions] : n \in 1..MaxBatch}

NoCall == [status |-> "none", pixel_values |-> <<>>, labels |-> <<>>, id |-> <<>>]
NoDecode == [decode_in |-> <<>>, label_str |-> <<>>]
NoForward ==
    [id |-> <<>>, loss |-> <<>>, predicted_labels |-> <<>>, labels |-> <<>>,
     memory |-> [heap |-> <<>>, batch_labels |-> 0, inputs_labels |-> 0, label_ids |-> 0]]
NoMetrics == [status |-> "none", values |-> <<>>]

\* ----------------------------------------------------------- postprocessing
\* faulty variant: the ignore index is left in the label ids
ReplaceIgnoreIndexSkipped(tok, label_ids) == label_ids

\* labels_ids[labels_ids == -100] = pad_token_id, or eos_token_id when the
\* tokenizer has no pad token; then batch_decode(.., skip_special_tokens=True)
ReplaceIgnoreIndex(tok, label_ids) ==
    MaskedAssign(label_ids, IgnoreIndex,
                 IF ~IsNone(tok.pad_token_id) THEN tok.pad_token_id[1]
                 ELSE tok.eos_token_id[1])

\* compute_metrics: the reference side (pred.label_ids is changed in place)
compute_metrics_labels(tok, labels_ids) ==
    LET replaced == ReplaceIgnoreIndex(tok, labels_ids)
    IN [decode_in |-> replaced, label_str |-> batch_decode(tok, replaced, TRUE)]

\* forward_pass_with_label: the reference side, on np.array(batch["labels"])
forward_pass_labels(tok, batch_labels) ==
    LET label_ids == ReplaceIgnoreIndex(tok, batch_labels)
    IN [decode_in |-> label_ids, label_str |-> batch_decode(tok, label_ids, TRUE)]

\* the labels column is a fixed-length integer sequence per example
\* (Sequence(feature=int32, length=max_sequence_length)); rows of another
\* length, or a number of images other than the number of rows, do not load
WellFormed(out, max_sequence_length) ==
    /\ out.status = "returned"
    /\ \A i \in 1..Len(out.labels) : Len(out.labels[i]) = max_sequence_length
    /\ out.pixel_values = <<Len(out.labels), Channels, ImageSize, ImageSize>>

\* --------------------------------------- the transforms applied to a batch
\* One batch of raw examples goes through preprocess_function and, when the
\* encoded batch loads, its labels go through the reference postprocessing
\* of the same script.
DefaultArgs(L) ==
    [max_sequence_length |-> L, random_seed |-> 42, num_data |-> 0, batch_size |-> 32]

RawBatch(captions) ==
    [i \in 1..Len(captions) |-> [image_id |-> 10 + i, caption |-> captions[i]]]

\* max_sequence_length leaves room for the special tokens the tokenizer adds
\* (with less the tokenizer has nothing it can truncate to)
InitTransform ==
    /\ script \in {"train", "predict"}
    /\ tokenizer \in TokenizerNames
    /\ args \in {DefaultArgs(L) : L \in 1..MaxSeqLen}
    /\ args.max_sequence_length > NumSpecialTokens(Tokenizer(tokenizer))
    /\ examples \in {RawBatch(c) : c \in Batches}
    /\ pc = "call"
    /\ pre_out = NoCall
    /\ post_out = NoDecode
    /\ global_seed = <<>>
    /\ random_ops = {}
    /\ dataset = <<>>
    /\ cursor = 0
    /\ encoded_ds = <<>>
    /\ batch = <<>>
    /\ fwd_out = NoForward
    /\ prediction = <<>>
    /\ metrics = NoMetrics

PreprocessTrain ==
    /\ pc = "call" /\ script = "train"
    /\ \E conv \in RaggedConversions :
          pre_out' = preprocess_function(examples, Tokenizer(tokenizer),
                                         args.max_sequence_length, conv, FALSE)
    /\ pc' = "encoded"
    /\ UNCHANGED <<script, tokenizer, args, examples, post_out, run_vars>>

PreprocessPredict ==
    /\ pc = "call" /\ script = "predict"
    /\ \E conv \in RaggedConversions :
          pre_out' = preprocess_function(examples, Tokenizer(tokenizer),
                                         args.max_sequence_length, conv, TRUE)
    /\ pc' = "encoded"
    /\ UNCHANGED <<script, tokenizer, args, examples, post_out, run_vars>>

ComputeMetricsDecode ==
    /\ pc = "encoded" /\ script = "train"
    /\ WellFormed(pre_out, args.max_sequence_length)
    /\ post_out' = compute_metrics_labels(Tokenizer(tokenizer), pre_out.labels)
    /\ pc' = "decoded"
    /\ UNCHANGED <<script, tokenizer, args, examples, pre_out, run_vars>>

ForwardPassDecode ==
    /\ pc = "encoded" /\ script = "predict"
    /\ WellFormed(pre_out, args.max_sequence_length)
    /\ post_out' = forward_pass_labels(Tokenizer(tokenizer), pre_out.labels)
    /\ pc' = "decoded"
    /\ UNCHANGED <<script, tokenizer, args, examples, pre_out, run_vars>>

NextTransform ==
    \/ PreprocessTrain
    \/ PreprocessPredict
    \/ ComputeMetricsDecode
    \/ ForwardPassDecode

SpecTransform == InitTransform /\ [][NextTransform]_vars

\* ------------------------------------------------- claims on the transforms
Tok == Tokenizer(tokenizer)
HasPad == ~IsNone(Tok.pad_token_id)
Called == pc \in {"encoded", "decoded"}
MaxLen == args.max_sequence_length

\* the ids of caption i as the tokenizer returns them before any padding
RealIds(i) == Encode(Tok, examples[i].caption, MaxLen)

\* C1: for any caption batch and any max_sequence_length >= 1,
\* preprocess_function returns one labels sequence per example, each of
\* exactly max_sequence_length entries, with and without a pad token.
C1_LabelsHaveMaxSequenceLength ==
    Called =>
        /\ pre_out.status = "returned"
        /\ Len(pre_out.labels) = Len(examples)
        /\ \A i \in 1..Len(pre_out.labels) : Len(pre_out.labels[i]) = MaxLen

\* C2: without a pad token the real token ids are kept unchanged as a prefix
\* and every following position up to max_sequence_length is -100.
C2_NoPadRightPadsWithIgnoreIndex ==
    (Called /\ ~HasPad) =>
        /\ pre_out.status = "returned"
        /\ Len(pre_out.labels) = Len(examples)
        /\ \A i \in 1..Len(pre_out.labels) :
              pre_out.labels[i] =
                  RealIds(i) \o Repeat(IgnoreIndex, MaxLen - Len(RealIds(i)))

\* C5: with a pad token the labels are the tokenizer's padded id sequence
\* with every pad_token_id position replaced by -100 and every other position
\* unchanged; all trailing pad positions are -100.
C5_PadPositionsBecomeIgnoreIndex ==
    (Called /\ HasPad) =>
        /\ pre_out.status = "returned"
        /\ Len(pre_out.labels) = Len(examples)
        /\ \A i \in 1..Len(pre_out.labels) :
              LET ids == PadToMaxLength(Tok, RealIds(i), MaxLen)
              IN /\ Len(pre_out.labels[i]) = MaxLen
                 /\ \A t \in 1..MaxLen :
                       /\ ids[t] = Tok.pad_token_id[1] => pre_out.labels[i][t] = IgnoreIndex
                       /\ ids[t] # Tok.pad_token_id[1] => pre_out.labels[i][t] = ids[t]
                       /\ t > Len(RealIds(i)) => pre_out.labels[i][t] = IgnoreIndex

\* two captions of different lengths, both shorter than max_sequence_length,
\* encoded by a tokenizer with a pad token: both rows end in -100
C5_Witness ==
    /\ Called /\ HasPad /\ pre_out.status = "returned"
    /\ Len(examples) = 2
    /\ Len(RealIds(1)) < Len(RealIds(2)) /\ Len(RealIds(2)) < MaxLen
    /\ pre_out.labels[1][MaxLen] = IgnoreIndex
    /\ pre_out.labels[2][MaxLen] = IgnoreIndex
    /\ pre_out.labels[2][1] # IgnoreIndex

\* C10: for every non-empty batch, a batch of one example included, the
\* returned pixel_values hold one 3x224x224 image per example, as many as
\* labels (and ids in predict.py).
C10_OnePixelValuesEntryPerExample ==
    (Called /\ pre_out.status = "returned") =>
        /\ pre_out.pixel_values = <<Len(examples), Channels, ImageSize, ImageSize>>
        /\ pre_out.pixel_values[1] = Len(pre_out.labels)
        /\ script = "predict" => pre_out.pixel_values[1] = Len(pre_out.id)

SpecialTexts == {Tok.text[i] : i \in Tok.all_special_ids}

\* C3: every -100 of the labels is replaced by the pad token id (the eos
\* token id without a pad token) before decoding: batch_decode never sees
\* -100, the other positions are unchanged, and no special-token text is in
\* the reference strings.
C3_SentinelReplacedBeforeDecode ==
    pc = "decoded" =>
        /\ Len(post_out.decode_in) = Len(pre_out.labels)
        /\ Len(post_out.label_str) = Len(pre_out.labels)
        /\ \A i \in 1..Len(pre_out.labels) :
              /\ Len(post_out.decode_in[i]) = Len(pre_out.labels[i])
              /\ \A t \in 1..Len(pre_out.labels[i]) :
                    /\ post_out.decode_in[i][t] # IgnoreIndex
                    /\ pre_out.labels[i][t] # IgnoreIndex =>
                           post_out.decode_in[i][t] = pre_out.labels[i][t]
                    /\ pre_out.labels[i][t] = IgnoreIndex =>
                           post_out.decode_in[i][t] =
                               IF HasPad THEN Tok.pad_token_id[1] ELSE Tok.eos_token_id[1]
              /\ \A k \in 1..Len(post_out.label_str[i]) :
                    post_out.label_str[i][k] \notin SpecialTexts \cup {"<invalid>"}

\* labels holding -100 next to real ids were decoded, with a tokenizer that
\* has no pad token (the eos branch)
C3_Witness ==
    /\ pc = "decoded" /\ ~HasPad
    /\ \E i \in 1..Len(pre_out.labels) :
          /\ pre_out.labels[i][MaxLen] = IgnoreIndex
          /\ pre_out.labels[i][1] # IgnoreIndex
          /\ post_out.decode_in[i][MaxLen] = Tok.eos_token_id[1]
          /\ post_out.label_str[i] # <<>>

\* the same with a pad token (the pad branch)
C3_WitnessPad ==
    /\ pc = "decoded" /\ HasPad
    /\ \E i \in 1..Len(pre_out.labels) :
          /\ pre_out.labels[i][MaxLen] = IgnoreIndex
          /\ post_out.decode_in[i][MaxLen] = Tok.pad_token_id[1]
          /\ post_out.label_str[i] # <<>>

\* the caption's words whose token is not a special token
CleanWords(caption) ==
    SelectSeq(caption, LAMBDA w : Tok.vocab[w] \notin Tok.all_special_ids)

Fits(caption) == Len(caption) + NumSpecialTokens(Tok) <= MaxLen

\* C7: for captions whose tokenization fits in max_sequence_length, encoding
\* with preprocess_function and then replacing the sentinel and decoding
\* without special tokens gives back the caption's non-special tokens, with
\* and without a pad token.
C7_RoundTrip ==
    (Called /\ \A i \in 1..Len(examples) : Fits(examples[i].caption)) =>
        /\ pre_out.status = "returned"
        /\ Len(pre_out.labels) = Len(examples)
        /\ \A i \in 1..Len(examples) :
              DecodeRow(Tok, ReplaceIgnoreIndex(Tok, pre_out.labels)[i], TRUE)
                  = CleanWords(examples[i].caption)

\* ------------------------------------------------------------- collaborators
\* The model, the shuffle and the metric library are external.  What the
\* scripts rely on: generate() and the logits depend on the image (and the
\* position), shuffle(seed) is a permutation fixed by the seed.

\* model.generate(pixel_values, **gen_kwargs) for one image: a token sequence
\* ending the way the decoder ends one; some images get no word at all
Generate(tok, image) ==
    tok.prefix \o (IF image % 2 = 0 THEN <<tok.vocab["a"]>> ELSE <<>>)
               \o (IF IsNone(tok.eos_token_id) THEN tok.suffix ELSE tok.eos_token_id)

\* the negative log-likelihood the logits of `image` give at position t
TokenLoss(image, t) == 1 + ((image + t) % 3)

\* dataset.shuffle(seed=.., buffer_size=..)
Shuffle(ds, seed) ==
    IF Len(ds) = 0 THEN ds
    ELSE [i \in 1..Len(ds) |-> ds[((i - 1 + seed) % Len(ds)) + 1]]

\* metric.compute(predictions, references): the overlap of the pairs.  With
\* nothing to align (all predictions or all references empty) the library
\* either divides by zero or returns a score of zero, depending on the metric.
MetricNames == {"bleu", "rouge", "meteor"}
DegenerateOutcomes == {"ZeroDivisionError", "zero"}

Degenerate(pred_str, label_str) ==
    \/ \A i \in 1..Len(pred_str) : pred_str[i] = <<>>
    \/ \A i \in 1..Len(label_str) : label_str[i] = <<>>

Overlap(pred_str, label_str) ==
    Cardinality({i \in 1..Len(pred_str) :
                    pred_str[i] # <<>> /\ pred_str[i] = label_str[i]})

\* ------------------------------------------------- forward_pass_with_label
RECURSIVE SumSeq(_)
SumSeq(xs) == IF xs = <<>> THEN 0 ELSE Head(xs) + SumSeq(Tail(xs))

\* tensor.reshape(-1) / view(-1): the rows one after the other
RECURSIVE Flatten(_)
Flatten(rows) == IF rows = <<>> THEN <<>> ELSE Head(rows) \o Flatten(Tail(rows))

\* array.reshape(n, -1): n rows of equal width, in order
Reshape(flat, n) ==
    LET width == Len(flat) \div n
    IN [b \in 1..n |-> SubSeq(flat, (b - 1) * width + 1, b * width)]

\* faulty variant: a loss that does not ignore any label
CrossEntropyLossNoIgnore(flat_nll, flat_labels) == flat_nll

\* torch.nn.CrossEntropyLoss(reduction="none") on the flattened logits and
\* labels: one loss per position, zero where the label is the ignore index
\* (ignore_index is left at its default, -100)
CrossEntropyLossNone(flat_nll, flat_labels) ==
    [k \in 1..Len(flat_labels) |->
        IF flat_labels[k] = IgnoreIndex THEN 0 ELSE flat_nll[k]]

\* loss.reshape(inputs["labels"].shape[0], -1).sum(axis=1)
PerExampleLoss(token_loss, n) ==
    LET rows == Reshape(token_loss, n)
    IN [b \in 1..n |-> SumSeq(rows[b])]

\* Arrays and tensors are objects: the heap is the sequence of their
\* buffers, a name refers to a buffer by its index, and an in-place
\* assignment through one name is seen through every name of that buffer.

\* faulty variant: np.asarray(v), which hands back the buffer of v itself
NpAsArray(heap, ref) == [heap |-> heap, ref |-> ref]

\* np.array(v) (copy=True by default): a new buffer with the values of v
NpArray(heap, ref) == [heap |-> Append(heap, heap[ref]), ref |-> Len(heap) + 1]

\* torch.tensor(data): always a new buffer with the values of data
TorchTensor(heap, ref) == [heap |-> Append(heap, heap[ref]), ref |-> Len(heap) + 1]

\* label_ids[label_ids == -100] = pad/eos id: written into the buffer that
\* label_ids names
ReplaceIgnoreIndexInPlace(tok, heap, ref) ==
    [heap EXCEPT ![ref] = ReplaceIgnoreIndex(tok, @)]

forward_pass_with_label(tok, b) ==
    LET \* batch["labels"] is the first buffer
        heap0 == << [i \in 1..Len(b) |-> b[i].labels] >>
        batch_labels == 1
        \* inputs["labels"] = torch.tensor(np.array(batch["labels"]))
        as_array == NpArray(heap0, batch_labels)
        inputs == TorchTensor(as_array.heap, as_array.ref)
        pred_ids == [i \in 1..Len(b) |-> Generate(tok, b[i].pixel_values)]
        pred_str == batch_decode(tok, pred_ids, TRUE)
        \* label_ids = np.array(batch["labels"]), then the replacement
        label_ids == NpArray(inputs.heap, batch_labels)
        heap == ReplaceIgnoreIndexInPlace(tok, label_ids.heap, label_ids.ref)
        label_str == batch_decode(tok, heap[label_ids.ref], TRUE)
        \* the loss is computed after the replacement, on inputs["labels"]
        inputs_labels == heap[inputs.ref]
        flat_nll == Flatten([i \in 1..Len(b) |->
                        [t \in 1..Len(b[i].labels) |-> TokenLoss(b[i].pixel_values, t)]])
        loss == PerExampleLoss(
                    CrossEntropyLossNone(flat_nll, Flatten(inputs_labels)), Len(b))
    IN [ id |-> [i \in 1..Len(b) |-> b[i].id], loss |-> loss,
         predicted_labels |-> pred_str, labels |-> label_str,
         memory |-> [heap |-> heap, batch_labels |-> batch_labels,
                     inputs_labels |-> inputs.ref, label_ids |-> label_ids.ref] ]

\* ---------------------------------------------------------- compute_metrics
\* pred.predictions and pred.label_ids of the whole evaluation set; the three
\* metrics are computed one after the other with nothing around them
compute_metrics(tok, pred_ids, labels_ids, outcome) ==
    LET pred_str == batch_decode(tok, pred_ids, TRUE)
        label_str == compute_metrics_labels(tok, labels_ids).label_str
    IN IF Degenerate(pred_str, label_str) /\ outcome = "ZeroDivisionError"
       THEN [status |-> "raised", values |-> <<>>]
       ELSE [status |-> "returned",
             values |-> [m \in MetricNames |->
                            [nan |-> FALSE, score |-> Overlap(pred_str, label_str)]]]

\* ------------------------------------------------------------- the drivers
\* python -m image_captioning.train / image_captioning.predict, from the
\* parsed arguments to the saved outputs.  `dataset` is the evaluated split
\* (validation for train.py, the test split for predict.py).
RandomSeeds == {42, 7}
RunCaptions == {<<>>, <<"a">>}
Datasets == UNION {[1..n -> RunCaptions] : n \in 1..MaxData}

\* faulty variant: main(args) is entered without seed_everything
StartAtMain == "main"

\* the statement after parser.parse_args()
Start == "start"

Init ==
    /\ script \in {"train", "predict"}
    /\ tokenizer \in TokenizerNames
    /\ args \in [max_sequence_length : 1..MaxSeqLen, random_seed : RandomSeeds,
                 num_data : 0..MaxData, batch_size : 1..MaxBatch]
    /\ args.max_sequence_length > NumSpecialTokens(Tokenizer(tokenizer))
    /\ dataset \in {RawBatch(c) : c \in Datasets}
    /\ pc = Start
    /\ examples = <<>>
    /\ pre_out = NoCall
    /\ post_out = NoDecode
    /\ global_seed = <<>>
    /\ random_ops = {}
    /\ cursor = 0
    /\ encoded_ds = <<>>
    /\ batch = <<>>
    /\ fwd_out = NoForward
    /\ prediction = <<>>
    /\ metrics = NoMetrics

\* a randomized operation, the seed it is given and the global seed in force
RandomOp(op, seed) == [op |-> op, seed |-> seed, seeded |-> global_seed]

\* seed_everything(args.random_seed), then main(args)
SeedArgument(a) == a.random_seed

SeedEverything ==
    /\ pc = "start"
    /\ global_seed' = <<SeedArgument(args)>>
    /\ pc' = "main"
    /\ UNCHANGED <<script, tokenizer, args, examples, pre_out, post_out, random_ops,
                   dataset, cursor, encoded_ds, batch, fwd_out, prediction, metrics>>

\* train.py: train_dataset.shuffle(seed=args.random_seed, buffer_size=1000);
\* the validation split, which `dataset` holds, is not shuffled
ShuffleSeed(a) == a.random_seed

ShuffleTrain ==
    /\ pc = "main" /\ script = "train"
    /\ random_ops' = random_ops \cup {RandomOp("shuffle", <<ShuffleSeed(args)>>)}
    /\ pc' = "shuffled"
    /\ UNCHANGED <<script, tokenizer, args, examples, pre_out, post_out, global_seed,
                   dataset, cursor, encoded_ds, batch, fwd_out, prediction, metrics>>

\* predict.py: test_dataset.shuffle(seed=args.random_seed, buffer_size=10000)
ShufflePredict ==
    /\ pc = "main" /\ script = "predict"
    /\ dataset' = Shuffle(dataset, ShuffleSeed(args))
    /\ random_ops' = random_ops \cup {RandomOp("shuffle", <<ShuffleSeed(args)>>)}
    /\ pc' = "shuffled"
    /\ UNCHANGED <<script, tokenizer, args, examples, pre_out, post_out, global_seed,
                   cursor, encoded_ds, batch, fwd_out, prediction, metrics>>

\* the examples of one encoded batch; pixel_values stands for the image
EncodedExamples(raw, out, with_id) ==
    [i \in 1..Len(raw) |->
        IF with_id
        THEN [pixel_values |-> raw[i].image_id, labels |-> out.labels[i], id |-> out.id[i]]
        ELSE [pixel_values |-> raw[i].image_id, labels |-> out.labels[i]]]

\* how many examples the run asks for: all of the stream when num_data is 0
Wanted == IF 0 < args.num_data THEN Min(args.num_data, Len(dataset)) ELSE Len(dataset)

\* dataset.map(preprocess_function, batched=True, ...): the next batch of the
\* stream is encoded when an example of it is asked for; a batch that does
\* not load into the declared features ends the run
MapStep(with_id) ==
    LET raw == SubSeq(dataset, cursor + 1, Min(cursor + MapBatchSize, Len(dataset)))
    IN /\ pc = "shuffled"
       /\ Len(encoded_ds) < Wanted
       /\ examples' = raw
       /\ \E conv \in RaggedConversions :
             pre_out' = preprocess_function(raw, Tokenizer(tokenizer),
                                            args.max_sequence_length, conv, with_id)
       /\ IF WellFormed(pre_out', args.max_sequence_length)
          THEN /\ encoded_ds' = encoded_ds \o EncodedExamples(raw, pre_out', with_id)
               /\ cursor' = cursor + Len(raw)
               /\ pc' = pc
          ELSE /\ pc' = "error"
               /\ UNCHANGED <<encoded_ds, cursor>>
       /\ UNCHANGED <<script, tokenizer, args, post_out, global_seed, random_ops,
                      dataset, batch, fwd_out, prediction, metrics>>

MapTrain == script = "train" /\ MapStep(FALSE)

MapPredict == script = "predict" /\ MapStep(TRUE)

\* Dataset.from_dict(dataset._head(num_data), ...).with_format("torch"), or
\* dataset.with_format("torch") for the whole stream
WithFormat ==
    /\ pc = "shuffled"
    /\ Len(encoded_ds) >= Wanted
    /\ encoded_ds' = SubSeq(encoded_ds, 1, Wanted)
    /\ pc' = "ready"
    /\ UNCHANGED <<script, tokenizer, args, examples, pre_out, post_out, global_seed,
                   random_ops, dataset, cursor, batch, fwd_out, prediction, metrics>>

\* the records of one output batch, one per example
Records(out) ==
    [i \in 1..Len(out.id) |->
        [id |-> out.id[i], loss |-> out.loss[i],
         predicted_labels |-> out.predicted_labels[i], labels |-> out.labels[i]]]

\* test_dataset.map(forward_pass_with_label, batched=True,
\*                  batch_size=args.test_batch_size, drop_last_batch=False)
ForwardPassBatch ==
    LET done == Len(prediction)
        b == SubSeq(encoded_ds, done + 1, Min(done + args.batch_size, Len(encoded_ds)))
    IN /\ pc = "ready" /\ script = "predict"
       /\ done < Len(encoded_ds)
       /\ batch' = b
       /\ fwd_out' = forward_pass_with_label(Tokenizer(tokenizer), b)
       /\ prediction' = prediction \o Records(fwd_out')
       /\ random_ops' = random_ops \cup {RandomOp("generate", global_seed)}
       /\ UNCHANGED <<script, tokenizer, args, pc, examples, pre_out, post_out,
                      global_seed, dataset, cursor, encoded_ds, metrics>>

\* prediction.to_pandas() / pd.concat(one frame per record), then to_csv
WritePredictions ==
    /\ pc = "ready" /\ script = "predict"
    /\ Len(prediction) = Len(encoded_ds)
    /\ pc' = "done"
    /\ UNCHANGED <<script, tokenizer, args, examples, pre_out, post_out, run_vars>>

\* Seq2SeqTrainingArguments(.., seed=args.random_seed); trainer.train()
TrainerSeed(a) == a.random_seed

Train ==
    /\ pc = "ready" /\ script = "train"
    /\ random_ops' = random_ops \cup {RandomOp("train", <<TrainerSeed(args)>>)}
    /\ pc' = "training"
    /\ UNCHANGED <<script, tokenizer, args, examples, pre_out, post_out, global_seed,
                   dataset, cursor, encoded_ds, batch, fwd_out, prediction, metrics>>

\* the evaluation over eval_dataset and its compute_metrics
EvaluationLoop(next_pc) ==
    /\ \E outcome \in DegenerateOutcomes :
          metrics' = compute_metrics(
              Tokenizer(tokenizer),
              [i \in 1..Len(encoded_ds) |->
                  Generate(Tokenizer(tokenizer), encoded_ds[i].pixel_values)],
              [i \in 1..Len(encoded_ds) |-> encoded_ds[i].labels],
              outcome)
    /\ random_ops' = random_ops \cup {RandomOp("generate", global_seed)}
    /\ pc' = IF metrics'.status = "raised" THEN "error" ELSE next_pc
    /\ UNCHANGED <<script, tokenizer, args, examples, pre_out, post_out, global_seed,
                   dataset, cursor, encoded_ds, batch, fwd_out, prediction>>

\* evaluation_strategy="steps", eval_steps=args.eval_steps: an evaluation
\* inside trainer.train() when max_steps reaches eval_steps
EvaluateAtEvalSteps ==
    /\ pc = "training"
    /\ metrics.status = "none"
    /\ EvaluationLoop("training")

\* trainer.train() returns
TrainEnd ==
    /\ pc = "training"
    /\ pc' = "trained"
    /\ UNCHANGED <<script, tokenizer, args, examples, pre_out, post_out, run_vars>>

\* the second trainer's trainer.evaluate(eval_dataset, **gen_kwargs):
\* generation over the whole evaluation set, then compute_metrics; an
\* exception of compute_metrics is not caught anywhere and ends the run
Evaluate ==
    /\ pc = "trained"
    /\ EvaluationLoop("evaluated")

\* model / feature_extractor / tokenizer .save_pretrained(args.output_dir)
SavePretrained ==
    /\ pc = "evaluated"
    /\ pc' = "done"
    /\ UNCHANGED <<script, tokenizer, args, examples, pre_out, post_out, run_vars>>

Next ==
    \/ SeedEverything
    \/ ShuffleTrain
    \/ ShufflePredict
    \/ MapTrain
    \/ MapPredict
    \/ WithFormat
    \/ ForwardPassBatch
    \/ WritePredictions
    \/ Train
    \/ EvaluateAtEvalSteps
    \/ TrainEnd
    \/ Evaluate
    \/ SavePretrained

Spec == Init /\ [][Next]_vars

\* --------------------------------------------------- claims on the drivers

\* what compute_metrics was handed by the evaluation of the whole set
EvalPredStr ==
    batch_decode(Tok, [i \in 1..Len(encoded_ds) |-> Generate(Tok, encoded_ds[i].pixel_values)],
                 TRUE)
EvalLabelStr ==
    batch_decode(Tok, ReplaceIgnoreIndex(Tok, [i \in 1..Len(encoded_ds) |-> encoded_ds[i].labels]),
                 TRUE)

\* C4: when a metric has nothing to align (a division by zero on empty
\* decoded text), compute_metrics reports "nan" for it and no exception
\* escapes compute_metrics.
C4_DegenerateMetricIsNan ==
    (script = "train" /\ metrics.status # "none" /\ Degenerate(EvalPredStr, EvalLabelStr)) =>
        /\ metrics.status = "returned"
        /\ \A m \in MetricNames : metrics.values[m].nan

\* the sum of an example's own token losses over the positions whose label
\* is not the ignore index
OwnLoss(e) ==
    SumSeq([t \in 1..Len(e.labels) |->
               IF e.labels[t] = IgnoreIndex THEN 0 ELSE TokenLoss(e.pixel_values, t)])

\* C6: forward_pass_with_label returns exactly one loss per example of the
\* batch, the sum of that example's own token losses over its
\* max_sequence_length positions, to which the -100 positions add nothing.
C6_PerExampleLoss ==
    (script = "predict" /\ batch # <<>>) =>
        /\ Len(fwd_out.loss) = Len(batch)
        /\ \A i \in 1..Len(batch) :
              /\ Len(batch[i].labels) = MaxLen
              /\ fwd_out.loss[i] = OwnLoss(batch[i])

\* a batch of two examples with different losses, one of them with ignored
\* positions and real ones
C6_Witness ==
    /\ script = "predict" /\ Len(batch) = 2
    /\ fwd_out.loss[1] # fwd_out.loss[2]
    /\ \E t \in 1..MaxLen : batch[1].labels[t] = IgnoreIndex
    /\ \E t \in 1..MaxLen : batch[1].labels[t] # IgnoreIndex
    /\ fwd_out.loss[1] > 0

\* batch["labels"] as the batch held it when forward_pass_with_label began
BatchLabels == [i \in 1..Len(batch) |-> batch[i].labels]

\* C11: in forward_pass_with_label the sentinel is replaced in a separate
\* copy of batch["labels"]: the array that is decoded shares no buffer with
\* batch["labels"] or with inputs["labels"], so after the replacement
\* batch["labels"] is as it was and the labels given to the model and to
\* the loss function, with the loss computed after the replacement, still
\* hold -100 at every padded position.
C11_ReplacementOnSeparateCopy ==
    (script = "predict" /\ batch # <<>>) =>
        LET m == fwd_out.memory
        IN /\ m.label_ids \notin {m.batch_labels, m.inputs_labels}
           /\ m.heap[m.batch_labels] = BatchLabels
           /\ m.heap[m.inputs_labels] = BatchLabels
           /\ \A i \in 1..Len(batch) : \A t \in 1..Len(batch[i].labels) :
                 batch[i].labels[t] = IgnoreIndex =>
                     /\ m.heap[m.inputs_labels][i][t] = IgnoreIndex
                     /\ m.heap[m.label_ids][i][t] # IgnoreIndex

\* a forward pass on a batch with padded positions, whose decoded copy holds
\* the pad or eos id there while the labels of the loss still hold -100
C11_Witness ==
    /\ script = "predict" /\ batch # <<>>
    /\ \E i \in 1..Len(batch) : \E t \in 1..Len(batch[i].labels) :
          /\ batch[i].labels[t] = IgnoreIndex
          /\ fwd_out.memory.heap[fwd_out.memory.label_ids][i][t] # IgnoreIndex
          /\ fwd_out.memory.heap[fwd_out.memory.inputs_labels][i][t] = IgnoreIndex
    /\ fwd_out.memory.heap[fwd_out.memory.label_ids] # BatchLabels

\* the reference text of a raw example: its non-special tokens that fit
ReferenceText(e) ==
    DecodeRow(Tok, Encode(Tok, e.caption, MaxLen), TRUE)

\* the run is over: prediction.csv is written, or an error ended the run
RunEnded == pc \in {"done", "error"}

OneRecordPerExample ==
    /\ Len(prediction) = Wanted
    /\ \A k \in 1..Wanted :
          /\ DOMAIN prediction[k] = {"id", "loss", "predicted_labels", "labels"}
          /\ prediction[k].id = dataset[k].image_id
          /\ prediction[k].loss = OwnLoss(encoded_ds[k])
          /\ encoded_ds[k].pixel_values = dataset[k].image_id
          /\ prediction[k].predicted_labels =
                 DecodeRow(Tok, Generate(Tok, dataset[k].image_id), TRUE)
          /\ prediction[k].labels = ReferenceText(dataset[k])

\* C8: an inference run over N test examples produces exactly N records
\* (id, loss, predicted_labels, labels), one per input example and carrying
\* that example's id, loss, predicted text and reference text, the final
\* smaller batch included, materialized (num_test_data > 0) or streaming.
C8_OneRecordPerExample ==
    (script = "predict" /\ RunEnded) => (pc = "done" /\ OneRecordPerExample)

\* the runs that write prediction.csv do hold one record per example
CompletedRunHasOneRecordPerExample ==
    (script = "predict" /\ pc = "done") => OneRecordPerExample

CompletedRunWitness ==
    /\ script = "predict" /\ pc = "done" /\ Len(prediction) = 2
    /\ args.batch_size = 1 /\ args.num_data = 0

\* C9: in both scripts seed_everything(args.random_seed) runs before any
\* randomized operation (every shuffle, the training, every generation), and
\* the shuffles and the trainer are given that same seed.
C9_SeededBeforeRandomizedOperations ==
    /\ \A r \in random_ops :
          /\ r.seeded = <<args.random_seed>>
          /\ r.seed = <<args.random_seed>>
    /\ pc # "start" => global_seed = <<args.random_seed>>

\* a training run that shuffled, trained and generated
C9_Witness ==
    /\ script = "train" /\ pc = "done"
    /\ {r.op : r \in random_ops} = {"shuffle", "train", "generate"}
    /\ args.random_seed = 7

\* an inference run that shuffled and generated
C9_WitnessPredict ==
    /\ script = "predict" /\ pc = "done"
    /\ {r.op : r \in random_ops} = {"shuffle", "generate"}

====
